---- MODULE Spec2Model ----
(***************************************************************************)
(* DRF_blog: the relational store of apps.blog (Category, Post, Heading)   *)
(* and the two public read-only views over Post.                           *)
(*                                                                         *)
(* The store is three tables, each a set of rows keyed by id.  Every write *)
(* is one ORM call (save / delete) that either commits or raises and       *)
(* leaves the tables as they were; every read is one view invocation.      *)
(* `response` records the last operation and its outcome.                  *)
(***************************************************************************)
EXTENDS Integers, Sequences, FiniteSets, TLC

VARIABLES categories, posts, headings, response

vars == <<categories, posts, headings, response>>

(* ------------------------------ bounds --------------------------------- *)
MaxCategories == 3
MaxPosts == 2
MaxHeadings == 2
MaxTime == 1
MaxOrder == 1

CategoryIds == 1..MaxCategories
PostIds == 1..MaxPosts
HeadingIds == 1..MaxHeadings
Times == 0..MaxTime

\* Category.parent is nullable (null=True): the null reference.
NULL == 0

\* Post.status_options
StatusOptions == {"draft", "published"}

\* Values a caller supplies for Post.slug (a CharField: any string), as many
\* as there are post ids.
SlugNames == <<"hello-world", "notes", "second-post", "third-post">>
PostSlugs == {SlugNames[i] : i \in 1..MaxPosts}

(* ------------------------------ rows ----------------------------------- *)
\* A Category row: the primary key and the self-reference.
CategoryRow(id, parent) == [id |-> id, parent |-> parent]

\* upload_to of Post.thumbnail: "blog/{title}/{filename}".
blog_thumbnail_directory(title, filename) == <<"blog", title, filename>>

\* A Post row, one field per model field.
PostRow(id, category, title, content, slug, status, created_at, updated_at) ==
    [id |-> id,
     category |-> category,
     title |-> title,
     description |-> "about " \o title,
     content |-> content,
     thumbnail |-> blog_thumbnail_directory(title, "cover.png"),
     keywords |-> "blog",
     slug |-> slug,
     created_at |-> created_at,
     updated_at |-> updated_at,
     status |-> status]

\* The fields of Post, as Meta.fields = "__all__" enumerates them.
PostFields ==
    {"id", "category", "title", "description", "content", "thumbnail",
     "keywords", "slug", "created_at", "updated_at", "status"}

\* PostListSerializer.Meta.fields
PostListFields == {"id", "title", "description", "thumbnail", "slug", "category"}

(* --------------------------- operation log ----------------------------- *)
\* The last operation: its name, the row id or slug it named, its outcome
\* and a body: for a read the serialized records, for a heading save the
\* values given <<post, title, slug, order>>, for a category delete the
\* number of rows removed.
Response(op, id, slug, outcome, body) ==
    [op |-> op, id |-> id, slug |-> slug, outcome |-> outcome, body |-> body]

Init ==
    /\ categories = {}
    /\ posts = {}
    /\ headings = {}
    /\ response = Response("none", NULL, "", "none", <<>>)

(* ------------------------------ managers ------------------------------- *)
\* Post.objects: every row.
AllPosts(ps) == ps

\* A manager that forgets the filter: get_queryset returns every row.
PostObjectsUnfiltered(ps) == ps

\* Post.postobjects: PostObjects.get_queryset filters status = "published".
PostObjects(ps) == {p \in ps : p.status = "published"}

\* Rank of a status value in the ascending string order of Meta.ordering.
StatusRank(s) == IF s = "draft" THEN 0 ELSE 1

\* An ordering that lost the minus sign: ("status", "created_at").
SortsBeforeAscending(p, q) ==
    \/ StatusRank(p.status) < StatusRank(q.status)
    \/ /\ p.status = q.status
       /\ p.created_at < q.created_at

\* Post.Meta.ordering = ("status", "-created_at"): p sorts strictly before q.
SortsBefore(p, q) ==
    \/ StatusRank(p.status) < StatusRank(q.status)
    \/ /\ p.status = q.status
       /\ p.created_at > q.created_at

\* The sequences a queryset over rows ps may evaluate to: every row once,
\* never a row after one it sorts before.  Rows equal under the ordering
\* come in whatever order the database returns them.
Ordered(ps) ==
    {s \in [1..Cardinality(ps) -> ps] :
        /\ \A i, j \in 1..Cardinality(ps) : i # j => s[i] # s[j]
        /\ \A i, j \in 1..Cardinality(ps) : i < j => ~SortsBefore(s[j], s[i])}

(* ----------------------------- serializers ----------------------------- *)
\* PostSerializer: fields = "__all__"; the category is rendered as its key.
PostSerializer(p) ==
    [id |-> p.id, category |-> p.category, title |-> p.title,
     description |-> p.description, content |-> p.content,
     thumbnail |-> p.thumbnail, keywords |-> p.keywords, slug |-> p.slug,
     created_at |-> p.created_at, updated_at |-> p.updated_at,
     status |-> p.status]

\* A list serializer that also carries the content field.
PostListSerializerWithContent(p) ==
    [id |-> p.id, title |-> p.title, description |-> p.description,
     content |-> p.content, thumbnail |-> p.thumbnail, slug |-> p.slug,
     category |-> p.category]

\* PostListSerializer: the six listed fields.
PostListSerializer(p) ==
    [id |-> p.id, title |-> p.title, description |-> p.description,
     thumbnail |-> p.thumbnail, slug |-> p.slug, category |-> p.category]

(* -------------------------------- views -------------------------------- *)
\* A queryset whose result was cached when the class was defined, before
\* any row was written.
ViewQuerysetAtImport(ps) == PostObjects({})

\* The queryset both views are declared over, evaluated on the post table
\* at request time (the view calls queryset.all() on every request).
ViewQueryset(ps) == PostObjects(ps)

\* ListAPIView.list: the bodies the list request may return over table ps,
\* the queryset in order with each row through the serializer.
ListBodies(ps) ==
    {[i \in 1..Len(rows) |-> PostListSerializer(rows[i])] :
        rows \in Ordered(ViewQueryset(ps))}

\* PostListView.get
PostListView ==
    /\ \E body \in ListBodies(posts) :
          response' = Response("list", NULL, "", "200", body)
    /\ UNCHANGED <<categories, posts, headings>>

\* get_object_or_404(queryset, slug = slug): the rows the lookup matches.
Lookup(ps, slug) == {p \in ViewQueryset(ps) : p.slug = slug}

\* RetrieveAPIView.retrieve over table ps: the outcome and body for a slug.
\* No match is Http404; more than one is MultipleObjectsReturned.
DetailOutcome(ps, slug) ==
    IF Lookup(ps, slug) = {} THEN "404"
    ELSE IF Cardinality(Lookup(ps, slug)) = 1 THEN "200"
    ELSE "500"

DetailBody(ps, slug) ==
    IF DetailOutcome(ps, slug) = "200"
    THEN <<PostSerializer(CHOOSE p \in Lookup(ps, slug) : TRUE)>>
    ELSE <<>>

\* PostDetailView.get with lookup_field = "slug".
PostDetailView(slug) ==
    /\ response' = Response("detail", NULL, slug,
                            DetailOutcome(posts, slug), DetailBody(posts, slug))
    /\ UNCHANGED <<categories, posts, headings>>

(* ------------------------------ Post writes ---------------------------- *)
\* The row of a table with the given primary key.
RowOf(table, id) == CHOOSE r \in table : r.id = id

Stored(table) == {r.id : r \in table}

\* A uniqueness check made through the filtered manager: drafts are not seen.
PostSlugFreeAmongPublished(id, slug) ==
    \A p \in PostObjects(posts) : p.id # id => p.slug # slug

\* Post.slug unique = True: no other row of the table holds the slug.
PostSlugFree(id, slug) == \A p \in AllPosts(posts) : p.id # id => p.slug # slug

\* Post.category is a required foreign key: the referenced row must exist.
CategoryExists(category) == category \in Stored(categories)

\* Post(...).save() of a new row.  created_at defaults to timezone.now and
\* updated_at is auto_now; `now` is the clock reading.
PostCreate(id, category, slug, status, now) ==
    /\ id \notin Stored(posts)
    /\ IF CategoryExists(category) /\ PostSlugFree(id, slug)
       THEN /\ posts' = posts \cup
                  {PostRow(id, category, "Hello World", "<p>body</p>", slug,
                           status, now, now)}
            /\ response' = Response("post_create", id, slug, "saved", <<>>)
       ELSE /\ posts' = posts
            /\ response' = Response("post_create", id, slug, "IntegrityError", <<>>)
    /\ UNCHANGED <<categories, headings>>

\* post.save() of a stored row with changed category, slug and status.
PostUpdate(id, category, slug, status, now) ==
    /\ id \in Stored(posts)
    /\ LET old == RowOf(posts, id) IN
       IF CategoryExists(category) /\ PostSlugFree(id, slug)
       THEN /\ posts' = (posts \ {old}) \cup
                  {PostRow(id, category, old.title, old.content, slug, status,
                           old.created_at, now)}
            /\ response' = Response("post_update", id, slug, "saved", <<>>)
       ELSE /\ posts' = posts
            /\ response' = Response("post_update", id, slug, "IntegrityError", <<>>)
    /\ UNCHANGED <<categories, headings>>

\* on_delete = DO_NOTHING in place of PROTECT: no heading blocks a delete.
HeadingsOfIgnored(id) == {}

\* Heading.post is on_delete = PROTECT: the headings that block deleting a post.
HeadingsOf(id) == {h \in headings : h.post = id}

\* post.delete()
PostDelete(id) ==
    /\ id \in Stored(posts)
    /\ IF HeadingsOf(id) = {}
       THEN /\ posts' = posts \ {RowOf(posts, id)}
            /\ response' = Response("post_delete", id, "", "deleted", <<>>)
       ELSE /\ posts' = posts
            /\ response' = Response("post_delete", id, "", "ProtectedError", <<>>)
    /\ UNCHANGED <<categories, headings>>

(* ---------------------------- Category writes -------------------------- *)
\* Category(...).save() of a new row; the parent, when given, must be a row
\* of the table once the insert is done (the new row may name itself).
CategoryCreate(id, parent) ==
    /\ id \notin Stored(categories)
    /\ IF parent = NULL \/ parent \in Stored(categories) \cup {id}
       THEN /\ categories' = categories \cup {CategoryRow(id, parent)}
            /\ response' = Response("category_create", id, "", "saved", <<>>)
       ELSE /\ categories' = categories
            /\ response' = Response("category_create", id, "", "IntegrityError", <<>>)
    /\ UNCHANGED <<posts, headings>>

\* category.save() of a stored row with a changed parent (cycles are allowed).
CategoryUpdate(id, parent) ==
    /\ id \in Stored(categories)
    /\ IF parent = NULL \/ parent \in Stored(categories)
       THEN /\ categories' = (categories \ {RowOf(categories, id)})
                                \cup {CategoryRow(id, parent)}
            /\ response' = Response("category_update", id, "", "saved", <<>>)
       ELSE /\ categories' = categories
            /\ response' = Response("category_update", id, "", "IntegrityError", <<>>)
    /\ UNCHANGED <<posts, headings>>

\* Category.parent is on_delete = CASCADE with related_name "children".
Children(ids) == {c.id : c \in {c \in categories : c.parent \in ids}}

\* A collector that stops at the direct children.
CollectDirect(ids) == ids \cup Children(ids)

\* The deletion collector: the category and, transitively, its children.
RECURSIVE Collect(_)
Collect(ids) ==
    IF Children(ids) \subseteq ids THEN ids ELSE Collect(ids \cup Children(ids))

\* on_delete = DO_NOTHING in place of PROTECT: no post blocks a delete.
ProtectedPostsIgnored(ids) == {}

\* Post.category is on_delete = PROTECT: the posts that block the collected rows.
ProtectedPosts(ids) == {p \in posts : p.category \in ids}

\* category.delete(): raises before any row is removed, or removes every
\* collected row and returns how many it removed.
CategoryDelete(id) ==
    /\ id \in Stored(categories)
    /\ IF ProtectedPosts(Collect({id})) = {}
       THEN /\ categories' = {c \in categories : c.id \notin Collect({id})}
            /\ response' = Response("category_delete", id, "", "deleted",
                                    <<Cardinality(Collect({id}))>>)
       ELSE /\ categories' = categories
            /\ response' = Response("category_delete", id, "", "ProtectedError", <<>>)
    /\ UNCHANGED <<posts, headings>>

(* ------------------------------- slugify ------------------------------- *)
\* Text is a sequence of one-character strings.  The characters below are
\* the ones the titles of this model are written with.
AsciiLower == {"a", "b", "e", "h", "i"}
AsciiUpper == {"A", "H"}
Whitespace == {" "}

\* unicodedata.normalize("NFKD", c).encode("ascii", "ignore"): an accented
\* letter decomposes into its base letter and a combining mark, which is
\* dropped; any other non-ASCII character is dropped whole.
NfkdAscii(c) ==
    IF c = "é" THEN <<"e">>
    ELSE IF c \in AsciiLower \cup AsciiUpper \cup Whitespace \cup {"-", "_", "!"}
    THEN <<c>>
    ELSE <<>>

\* str.lower() on one character.
Lower(c) == IF c = "A" THEN "a" ELSE IF c = "H" THEN "h" ELSE c

\* The characters re.sub(r"[^\w\s-]", "", ...) keeps.
Kept(c) == c \in AsciiLower \cup {"_"} \cup Whitespace \cup {"-"}

\* The characters of the class [-\s].
Separator(c) == c \in Whitespace \cup {"-"}

RECURSIVE Normalize(_)
Normalize(t) ==
    IF t = <<>> THEN <<>> ELSE NfkdAscii(Head(t)) \o Normalize(Tail(t))

RECURSIVE RemoveOthers(_)
RemoveOthers(t) ==
    IF t = <<>> THEN <<>>
    ELSE IF Kept(Lower(Head(t)))
    THEN <<Lower(Head(t))>> \o RemoveOthers(Tail(t))
    ELSE RemoveOthers(Tail(t))

RECURSIVE SkipSeparators(_)
SkipSeparators(t) ==
    IF t # <<>> /\ Separator(Head(t)) THEN SkipSeparators(Tail(t)) ELSE t

\* re.sub(r"[-\s]+", "-", ...): every run of separators becomes one hyphen.
RECURSIVE Hyphenate(_)
Hyphenate(t) ==
    IF t = <<>> THEN <<>>
    ELSE IF Separator(Head(t))
    THEN <<"-">> \o Hyphenate(SkipSeparators(t))
    ELSE <<Head(t)>> \o Hyphenate(Tail(t))

RECURSIVE LStrip(_)
LStrip(t) ==
    IF t # <<>> /\ Head(t) \in {"-", "_"} THEN LStrip(Tail(t)) ELSE t

RECURSIVE RStrip(_)
RStrip(t) ==
    IF t # <<>> /\ t[Len(t)] \in {"-", "_"}
    THEN RStrip(SubSeq(t, 1, Len(t) - 1))
    ELSE t

\* str.strip("-_")
Strip(t) == RStrip(LStrip(t))

\* django.utils.text.slugify(value), allow_unicode = False.
slugify(t) == Strip(Hyphenate(RemoveOthers(Normalize(t))))

(* ----------------------------- Heading writes -------------------------- *)
\* Heading.LEVEL_CHOICES
LEVEL_CHOICES == 1..6

\* Titles a caller gives a heading: "Hi!", " é -b_" and "!".
HeadingTitles ==
    {<<"H", "i", "!">>, <<" ", "é", " ", "-", "b", "_">>, <<"!">>}

\* Slugs a caller gives a heading: none, or "hi".
HeadingSlugs == {<<>>, <<"h", "i">>}

\* Levels a caller gives a heading: the least and greatest choice and the
\* integers next to them.  Heading.level is an IntegerField; its choices are
\* read by form and serializer validation, which save() does not run.
HeadingLevels == {0, 1, 6, 7}

\* Orders a caller gives a heading.
HeadingOrders == -1..MaxOrder

HeadingRow(id, post, title, slug, level, order) ==
    [id |-> id, post |-> post, title |-> title, slug |-> slug,
     level |-> level, order |-> order]

\* A save that derives on every save, whatever slug it is given.
SlugAlwaysDerived(slug, title) == slugify(title)

\* A save that never derives: the slug is stored as given.
SlugAsGiven(slug, title) == slug

\* Heading.save(): "if not self.slug: self.slug = slugify(self.title)".
SlugToSave(slug, title) == IF slug = <<>> THEN slugify(title) ELSE slug

\* unique_together with the (post, order) pair left out.
HeadingUniqueSlugOnly(id, post, slug, order) ==
    \A h \in headings : (h.id # id /\ h.post = post) => h.slug # slug

\* Heading.Meta.unique_together: (post, slug) and (post, order).
HeadingUnique(id, post, slug, order) ==
    \A h \in headings :
        (h.id # id /\ h.post = post) => (h.slug # slug /\ h.order # order)

\* What the table accepts of a heading row: the post exists, the order is a
\* PositiveIntegerField, and the row keeps both uniqueness constraints.
HeadingAccepted(id, post, slug, order) ==
    /\ post \in Stored(posts)
    /\ order >= 0
    /\ HeadingUnique(id, post, slug, order)

\* Heading(...).save() of a new row.
HeadingCreate(id, post, title, slug, level, order) ==
    /\ id \notin Stored(headings)
    /\ IF HeadingAccepted(id, post, SlugToSave(slug, title), order)
       THEN /\ headings' = headings \cup
                  {HeadingRow(id, post, title, SlugToSave(slug, title), level, order)}
            /\ response' = Response("heading_create", id, "", "saved",
                                    <<post, title, slug, order>>)
       ELSE /\ headings' = headings
            /\ response' = Response("heading_create", id, "", "IntegrityError",
                                    <<post, title, slug, order>>)
    /\ UNCHANGED <<categories, posts>>

\* heading.save() of a stored row whose fields were assigned.
HeadingUpdate(id, title, slug, level, order) ==
    /\ id \in Stored(headings)
    /\ LET old == RowOf(headings, id) IN
       IF HeadingAccepted(id, old.post, SlugToSave(slug, title), order)
       THEN /\ headings' = (headings \ {old}) \cup
                  {HeadingRow(id, old.post, title, SlugToSave(slug, title), level, order)}
            /\ response' = Response("heading_update", id, "", "saved",
                                    <<old.post, title, slug, order>>)
       ELSE /\ headings' = headings
            /\ response' = Response("heading_update", id, "", "IntegrityError",
                                    <<old.post, title, slug, order>>)
    /\ UNCHANGED <<categories, posts>>

\* heading.delete(): nothing references a heading.
HeadingDelete(id) ==
    /\ id \in Stored(headings)
    /\ headings' = headings \ {RowOf(headings, id)}
    /\ response' = Response("heading_delete", id, "", "deleted", <<>>)
    /\ UNCHANGED <<categories, posts>>

(* --------------------------- specifications ---------------------------- *)
\* The public API over the post table: posts of one root category are
\* created with every slug, status and clock reading, saved again with every
\* slug and status at the latest clock reading, deleted, and read.
Next ==
    \/ CategoryCreate(1, NULL)
    \/ \E id \in PostIds, s \in PostSlugs, st \in StatusOptions, now \in Times :
          PostCreate(id, 1, s, st, now)
    \/ \E id \in PostIds, s \in PostSlugs, st \in StatusOptions :
          PostUpdate(id, 1, s, st, MaxTime)
    \/ \E id \in PostIds : PostDelete(id)
    \/ PostListView
    \/ \E s \in PostSlugs : PostDetailView(s)

Spec == Init /\ [][Next]_vars

\* Deletion across the three tables: rows of every table are created and
\* deleted and categories are re-parented; posts are drafts written at time
\* 0 and headings are titled "Hi!" at level 1 and order 0, their slug derived.
NextIntegrity ==
    \/ \E id \in CategoryIds, parent \in CategoryIds \cup {NULL} :
          CategoryCreate(id, parent)
    \/ \E id \in CategoryIds, parent \in CategoryIds \cup {NULL} :
          CategoryUpdate(id, parent)
    \/ \E id \in CategoryIds : CategoryDelete(id)
    \/ \E id \in PostIds, c \in CategoryIds, s \in PostSlugs :
          PostCreate(id, c, s, "draft", 0)
    \/ \E id \in PostIds : PostDelete(id)
    \/ \E id \in HeadingIds, p \in PostIds :
          HeadingCreate(id, p, <<"H", "i", "!">>, <<>>, 1, 0)
    \/ \E id \in HeadingIds : HeadingDelete(id)

SpecIntegrity == Init /\ [][NextIntegrity]_vars

\* The headings of posts: one category, draft posts written at time 0, and
\* headings at level 1 created, re-saved and deleted with every title, slug
\* and order.
NextHeading ==
    \/ CategoryCreate(1, NULL)
    \/ \E id \in PostIds, s \in PostSlugs : PostCreate(id, 1, s, "draft", 0)
    \/ \E id \in HeadingIds, p \in PostIds, t \in HeadingTitles,
          s \in HeadingSlugs, o \in HeadingOrders :
          HeadingCreate(id, p, t, s, 1, o)
    \/ \E id \in Stored(headings), t \in HeadingTitles, o \in HeadingOrders :
          \E s \in HeadingSlugs \cup {RowOf(headings, id).slug} :
             HeadingUpdate(id, t, s, 1, o)
    \/ \E id \in HeadingIds : HeadingDelete(id)

SpecHeading == Init /\ [][NextHeading]_vars

\* The levels and orders of headings: one category, draft posts written at
\* time 0, and headings created and re-saved with every title, level and
\* order, their slug derived.
NextLevel ==
    \/ CategoryCreate(1, NULL)
    \/ \E id \in PostIds, s \in PostSlugs : PostCreate(id, 1, s, "draft", 0)
    \/ \E id \in HeadingIds, p \in PostIds, t \in HeadingTitles,
          l \in HeadingLevels, o \in HeadingOrders :
          HeadingCreate(id, p, t, <<>>, l, o)
    \/ \E id \in Stored(headings), t \in HeadingTitles,
          l \in HeadingLevels, o \in HeadingOrders :
          HeadingUpdate(id, t, <<>>, l, o)
    \/ \E id \in HeadingIds : HeadingDelete(id)

SpecLevel == Init /\ [][NextLevel]_vars

(* ------------------------- the public post API ------------------------- *)
DraftPosts == {p \in posts : p.status = "draft"}
PublishedPosts == {p \in posts : p.status = "published"}

\* The ids of the records of a list body.
BodyIds(body) == {body[i].id : i \in 1..Len(body)}

\* C1: whenever a post is stored as a draft, a detail request for its slug
\* answers 404 and no list body holds it; the last response, when it is a
\* read, shows exactly that for the table as it stands.
C1_DraftsHidden ==
    /\ \A p \in DraftPosts :
          /\ DetailOutcome(posts, p.slug) = "404"
          /\ \A body \in ListBodies(posts) : p.id \notin BodyIds(body)
    /\ response.op = "detail" =>
          \A p \in DraftPosts : p.slug = response.slug =>
              response.outcome = "404" /\ response.body = <<>>
    /\ response.op = "list" =>
          \A p \in DraftPosts : p.id \notin BodyIds(response.body)

\* A detail request for the slug of a stored draft was answered 404 while a
\* published post is stored too.
C1_Witness ==
    /\ response.op = "detail"
    /\ response.outcome = "404"
    /\ \E p \in DraftPosts : p.slug = response.slug
    /\ PublishedPosts # {}

C8_SlugUnique ==
    /\ [](\A p, q \in posts : p.id # q.id => p.slug # q.slug)
    /\ [](\A s \in PostSlugs : Cardinality(Lookup(posts, s)) <= 1)
    /\ [][response'.op \in {"post_create", "post_update"} =>
             /\ (\E q \in posts : q.id # response'.id /\ q.slug = response'.slug)
                   => response'.outcome = "IntegrityError"
             /\ response'.outcome = "IntegrityError" => posts' = posts
             /\ response'.outcome = "saved" =>
                   \E p \in posts' :
                      p.id = response'.id /\ p.slug = response'.slug]_vars

\* A create naming the slug of a stored draft was refused, with the
\* category it named stored.
C8_Witness ==
    /\ response.op = "post_create"
    /\ response.outcome = "IntegrityError"
    /\ response.id \notin Stored(posts)
    /\ \E q \in DraftPosts : q.slug = response.slug
    /\ categories # {}

\* C9: removing any set of drafts from the table changes neither the
\* outcome and body of a detail request for any slug nor the bodies a list
\* request may return; in particular a slug held by a draft answers as a
\* slug held by no post.
C9_DraftsUnobservable ==
    \A D \in SUBSET DraftPosts :
        /\ \A s \in PostSlugs :
              /\ DetailOutcome(posts \ D, s) = DetailOutcome(posts, s)
              /\ DetailBody(posts \ D, s) = DetailBody(posts, s)
        /\ ListBodies(posts \ D) = ListBodies(posts)
        /\ \A p \in D : DetailOutcome(posts, p.slug) = "404"

\* A list request answered over a table holding a draft and a published post.
C9_Witness ==
    /\ response.op = "list"
    /\ DraftPosts # {}
    /\ Len(response.body) >= 1

\* C10: in a list response a post created later than another stands before
\* it, and the body is the empty sequence, with outcome 200, when no post is
\* published.
C10_ListOrdered ==
    response.op = "list" =>
        /\ response.outcome = "200"
        /\ \A i, j \in 1..Len(response.body) :
              RowOf(posts, response.body[i].id).created_at
                 > RowOf(posts, response.body[j].id).created_at => i < j
        /\ PublishedPosts = {} => response.body = <<>>

\* A list response of two posts created at different times.
C10_Witness ==
    /\ response.op = "list"
    /\ Len(response.body) >= 2
    /\ RowOf(posts, response.body[1].id).created_at
          # RowOf(posts, response.body[2].id).created_at

(* ------------------------------ deletion ------------------------------- *)
\* The categories above a category: its parent, the parent's parent, ...,
\* following at most n references (a chain of parents may close a cycle).
RECURSIVE AncestorsOf(_, _)
AncestorsOf(id, n) ==
    IF n = 0 \/ id \notin Stored(categories) THEN {}
    ELSE LET parent == RowOf(categories, id).parent IN
         IF parent = NULL THEN {} ELSE {parent} \cup AncestorsOf(parent, n - 1)

\* The categories below a category: those it is an ancestor of.
DescendantsOf(id) ==
    {c.id : c \in {c \in categories : id \in AncestorsOf(c.id, Cardinality(categories))}}

HasChildren(id) == \E c \in categories : c.parent = id

\* C4: a delete of a category that a post references, and a delete of a post
\* that a heading references, end in ProtectedError and change no table.
C4_ProtectedDeleteRejected ==
    [][/\ (/\ response'.op = "category_delete"
           /\ \E p \in posts : p.category = response'.id)
          => /\ response'.outcome = "ProtectedError"
             /\ UNCHANGED <<categories, posts, headings>>
       /\ (/\ response'.op = "post_delete"
           /\ \E h \in headings : h.post = response'.id)
          => /\ response'.outcome = "ProtectedError"
             /\ UNCHANGED <<categories, posts, headings>>]_vars

\* A delete of a stored post that a heading references was refused while
\* another post without headings is stored.
C4_Witness ==
    /\ response.op = "post_delete"
    /\ response.outcome = "ProtectedError"
    /\ response.id \in Stored(posts)
    /\ \E h \in headings : h.post = response.id
    /\ \E p \in posts : \A h \in headings : h.post # p.id

\* C5 as stated: a delete of a category that has children succeeds and
\* removes every descendant.
C5_ParentDeleteSucceeds ==
    [][(response'.op = "category_delete" /\ HasChildren(response'.id)) =>
          /\ response'.outcome = "deleted"
          /\ \A d \in DescendantsOf(response'.id) \cup {response'.id} :
                d \notin Stored(categories')]_vars

\* C5 amended: a delete of a category that has children succeeds, removing
\* the category and every descendant and nothing else, when no post
\* references the category or a descendant; when one does, the delete ends
\* in ProtectedError and removes nothing.
C5_ParentDeleteCascadesUnlessProtected ==
    [][(response'.op = "category_delete" /\ HasChildren(response'.id)) =>
          LET doomed == DescendantsOf(response'.id) \cup {response'.id} IN
          IF \E p \in posts : p.category \in doomed
          THEN /\ response'.outcome = "ProtectedError"
               /\ UNCHANGED <<categories, posts, headings>>
          ELSE /\ response'.outcome = "deleted"
               /\ categories' = {c \in categories : c.id \notin doomed}
               /\ response'.body = <<Cardinality(doomed)>>
               /\ UNCHANGED <<posts, headings>>]_vars

\* A delete removed a category together with all the other categories of
\* the bound, its descendants.
C5_Witness ==
    /\ response.op = "category_delete"
    /\ response.outcome = "deleted"
    /\ response.body = <<MaxCategories>>
    /\ categories = {}

(* ------------------------------ headings ------------------------------- *)
\* The slug a heading save persists for the slug and title given.
PersistedSlug(given, title) == IF given = <<>> THEN slugify(title) ELSE given

\* C6: no two headings of a post share a slug or an order; a heading save
\* whose post holds another heading with the slug to persist (given or
\* derived) or with the order ends in IntegrityError and leaves the table
\* as it was; a save that succeeds stores exactly that slug and order.
C6_HeadingUnique ==
    /\ [](\A g, h \in headings :
             (g.id # h.id /\ g.post = h.post) =>
                 (g.slug # h.slug /\ g.order # h.order))
    /\ [][response'.op \in {"heading_create", "heading_update"} =>
             LET post == response'.body[1]
                 title == response'.body[2]
                 slug == PersistedSlug(response'.body[3], response'.body[2])
                 order == response'.body[4]
             IN  /\ (\E h \in headings :
                        /\ h.id # response'.id
                        /\ h.post = post
                        /\ (h.slug = slug \/ h.order = order))
                      => /\ response'.outcome = "IntegrityError"
                         /\ headings' = headings
                 /\ response'.outcome = "saved" =>
                      \E h \in headings' :
                         /\ h.id = response'.id
                         /\ h.post = post
                         /\ h.title = title
                         /\ h.slug = slug
                         /\ h.order = order]_vars

\* A create with no slug given was refused: its post is stored, its order
\* is free, and the slug derived from its title is held by another heading
\* of the post.
C6_Witness ==
    /\ response.op = "heading_create"
    /\ response.outcome = "IntegrityError"
    /\ response.body[1] \in Stored(posts)
    /\ response.body[3] = <<>>
    /\ response.body[4] >= 0
    /\ \E h \in headings :
          /\ h.post = response.body[1]
          /\ h.slug = slugify(response.body[2])
    /\ \A h \in headings :
          h.post = response.body[1] => h.order # response.body[4]

\* C7: after a heading save with no slug given the stored slug is
\* slugify(title); and saving a heading again with its slug cleared and its
\* title unchanged, when the stored slug was slugify(title), stores the same
\* slug.
C7_DerivedSlug ==
    /\ []((/\ response.op \in {"heading_create", "heading_update"}
           /\ response.outcome = "saved"
           /\ response.body[3] = <<>>)
          => /\ RowOf(headings, response.id).title = response.body[2]
             /\ RowOf(headings, response.id).slug = slugify(response.body[2]))
    /\ [][(/\ response'.op = "heading_update"
           /\ response'.outcome = "saved"
           /\ response'.body[3] = <<>>
           /\ response'.body[2] = RowOf(headings, response'.id).title
           /\ RowOf(headings, response'.id).slug
                 = slugify(RowOf(headings, response'.id).title))
          => RowOf(headings', response'.id).slug
                 = RowOf(headings, response'.id).slug]_vars

\* A heading titled " é -b_" was saved again with its slug cleared and is
\* stored with the slug "e-b".
C7_Witness ==
    /\ response.op = "heading_update"
    /\ response.outcome = "saved"
    /\ response.body[3] = <<>>
    /\ response.body[2] = <<" ", "é", " ", "-", "b", "_">>
    /\ RowOf(headings, response.id).slug = <<"e", "-", "b">>

\* C11: every stored heading has a level among LEVEL_CHOICES and an order
\* that is not negative.
C11_LevelAndOrderInRange ==
    \A h \in headings : h.level \in LEVEL_CHOICES /\ h.order >= 0

\* C12: a heading save given a slug that is not empty stores that slug: a
\* new row is stored with it, and a stored row saved again with the slug it
\* holds keeps it, whatever title the save assigns; the slug is not derived
\* from the title again.
C12_GivenSlugKept ==
    [][(/\ response'.op \in {"heading_create", "heading_update"}
        /\ response'.outcome = "saved"
        /\ response'.body[3] # <<>>)
       => /\ RowOf(headings', response'.id).slug = response'.body[3]
          /\ RowOf(headings', response'.id).title = response'.body[2]
          /\ (/\ response'.op = "heading_update"
              /\ response'.body[3] = RowOf(headings, response'.id).slug)
             => RowOf(headings', response'.id).slug
                   = RowOf(headings, response'.id).slug]_vars

\* A heading holding the slug "e-b", which only a derivation from the title
\* " é -b_" produces, was saved again with that slug and the title "Hi!" and
\* still holds "e-b".
C12_Witness ==
    /\ response.op = "heading_update"
    /\ response.outcome = "saved"
    /\ response.body[3] = <<"e", "-", "b">>
    /\ response.body[2] = <<"H", "i", "!">>
    /\ RowOf(headings, response.id).title = <<"H", "i", "!">>
    /\ RowOf(headings, response.id).slug = <<"e", "-", "b">>

\* C13: every stored post names a stored category, every stored heading
\* names a stored post, and every stored category has no parent or names a
\* stored category.
C13_ReferentialIntegrity ==
    /\ \A p \in posts : p.category \in Stored(categories)
    /\ \A h \in headings : h.post \in Stored(posts)
    /\ \A c \in categories : c.parent = NULL \/ c.parent \in Stored(categories)

\* A delete removed a category and a descendant while another category, a
\* post in it and a heading of that post stay stored.
C13_Witness ==
    /\ response.op = "category_delete"
    /\ response.outcome = "deleted"
    /\ response.body[1] >= 2
    /\ categories # {}
    /\ posts # {}
    /\ headings # {}

====
